---- MODULE Spec2Model ----
(***************************************************************************)
(* A model of lasercube-rs: the animation sequencer (src/src/animation.rs) *)
(* and the control / streaming channels of the driver (src/src/lib.rs).    *)
(*                                                                         *)
(* Five specifications share the module:                                   *)
(*   SpecAnimation  Animation::new followed by the playback loop of       *)
(*                  examples/animated.rs (play called again and again);    *)
(*   SpecControl    LaserCube::new followed by set_dac_rate calls;         *)
(*   SpecSession    the operations of LaserCube called on an open session; *)
(*   SpecCodec      LaserdockSample::new and the XY conversions;           *)
(*   SpecStream     the chunked streaming loop of examples/circle.rs and   *)
(*                  examples/points.rs.                                    *)
(* Sequences are 1-based here; offsets of the source are 0-based, so the   *)
(* source's buf[k] is buf[k + 1] below.                                    *)
(***************************************************************************)
EXTENDS Integers, Sequences, FiniteSets, TLC

(* ------------------------------ bounds -------------------------------- *)
MaxFrames == 3
MaxFrameLen == 5
MaxPlays == 2

(* ------------------------- program constants -------------------------- *)
SAMPLE_SIZE == 8
RECV_BUF_LEN == 64
BYTES_PER_BATCH == 64
SAMPLES_PER_BATCH == BYTES_PER_BATCH \div SAMPLE_SIZE
fixup_points == 2

VARIABLES
  (* animation.rs *)
  supplied,     \* the Vec<Frame> handed to Animation::new (kept for reference)
  frames,       \* Animation.frames, rewritten in place by Animation::new
  delay_ms,     \* Animation.delay_ms
  i,            \* loop variable of `for i in 0..=num_frames`
  apc,          \* position of the animation program
  fi,           \* position of `for frame in &self.frames` inside play
  plays,        \* number of calls of play made by the caller's loop
  playLog,      \* what the current call of play did: bulk writes and sleeps
  playResult,   \* the Result play returned
  (* lib.rs *)
  cpc,          \* position of the control program
  dev,          \* the USB device: endpoints present, output state
  logDebug,     \* log_enabled!(log::Level::Debug)
  diagIdx,      \* position inside diagnostics()
  ctlLog,       \* endpoint resolution and control transfers, in order
  lastExchange, \* the last call of write_buf: request, transfer, result
  openResult,   \* the Result LaserCube::new returned
  rateReq,      \* the argument of set_dac_rate
  rateMin,      \* `min` of set_dac_rate
  rateMax,      \* `max` of set_dac_rate
  rateResult,   \* the Result set_dac_rate returned
  rateCalls,    \* number of calls of set_dac_rate made so far
  (* lib.rs: operations called on an open session *)
  op,           \* the operation called last on the session
  opValue,      \* the value a get returned
  opResult,     \* the Result of a single-exchange operation
  opCalls,      \* number of operations called on the session so far
  (* examples/circle.rs, examples/points.rs: the streaming loop *)
  output_points, \* the samples to stream
  offset,       \* samples already handed out by output_points.chunks(..)
  spc,          \* position of the streaming program
  sentLog,      \* the bulk writes of the current pass over the points
  lastSend,     \* the last call of send: buffer, transfer, result
  passes,       \* passes of the outer loop made so far
  (* lib.rs: LaserdockSample::new *)
  codecIn,      \* the arguments r, g, b, x, y
  codecOut,     \* the sample built from them
  qpc           \* position of the encoding program

animVars == <<supplied, frames, delay_ms, i, apc, fi, plays, playLog, playResult>>
ctlVars == <<cpc, dev, logDebug, diagIdx, ctlLog, lastExchange, openResult,
             rateReq, rateMin, rateMax, rateResult, rateCalls>>
sesVars == <<op, opValue, opResult, opCalls>>
strVars == <<output_points, offset, spc, sentLog, lastSend, passes>>
codVars == <<codecIn, codecOut, qpc>>
extVars == <<sesVars, strVars, codVars>>
vars == <<animVars, ctlVars, extVars>>

(* ------------------------------ results ------------------------------- *)
\* anyhow::Result values; a and b carry the two fields of a BusError.
Ok == [tag |-> "Ok", a |-> 0, b |-> 0]
None == [tag |-> "None", a |-> 0, b |-> 0]
UsbError == [tag |-> "UsbError", a |-> 0, b |-> 0]
IncompleteWrite(written, expected) == [tag |-> "IncompleteWrite", a |-> written, b |-> expected]
IncompleteResponse(read, expected) == [tag |-> "IncompleteResponse", a |-> read, b |-> expected]
UnexpectedContent(actual, expected) == [tag |-> "UnexpectedContent", a |-> actual, b |-> expected]

(* ------------------------------ samples ------------------------------- *)
\* LaserdockSample { rg, b, x, y }.  The colours the frames are drawn from:
\* a blank one and a lit one (r = 10, g = 20 packed as r | g << 8, b = 80).
Colours == << [rg |-> 0, b |-> 0], [rg |-> 10 + 20 * 256, b |-> 80] >>

\* The colour of the f-th supplied frame: the frames alternate between the
\* two colours, starting with the one the caller picked (first \in 0..1).
FrameColour(first, f) == Colours[((f + first) % Len(Colours)) + 1]

\* The k-th sample of the f-th supplied frame.  x and y are quantized
\* coordinates in [0, 4095]; they name the sample's origin, so that every
\* supplied sample is distinct from every other.
Sample(c, f, k) == [rg |-> c.rg, b |-> c.b, x |-> f, y |-> k]

\* bytemuck::cast_slice of one #[repr(C)] sample on a little-endian host.
SampleBytes(s) ==
  << s.rg % 256, s.rg \div 256, s.b % 256, s.b \div 256,
     s.x % 256, s.x \div 256, s.y % 256, s.y \div 256 >>

RECURSIVE CastSlice(_)
CastSlice(points) ==
  IF points = <<>> THEN <<>>
  ELSE SampleBytes(Head(points)) \o CastSlice(Tail(points))

(* --------------------------- bulk transport --------------------------- *)
\* What libusb's write_bulk can answer for a buffer of len bytes: an error,
\* or the number of bytes it moved (all of them, none, or one short).
BulkWriteOutcomes(len) ==
  { [err |-> TRUE, n |-> 0] } \cup
  { [err |-> FALSE, n |-> k] : k \in ({len, len - 1, 0} \cap (0..len)) }

\* A variant of Send that reports success for every write the transport
\* did not fail.
SendAcceptsShort(buf, t) ==
  IF t.err THEN UsbError ELSE Ok

\* LaserCube::send
Send(buf, t) ==
  IF t.err THEN UsbError
  ELSE IF t.n # Len(buf) THEN IncompleteWrite(t.n, Len(buf))
  ELSE Ok

\* LaserCube::send_samples
SendSamples(points, t) == Send(CastSlice(points), t)

\* Frame::draw
Draw(frame, t) == SendSamples(frame, t)

(* --------------------------- Animation::new --------------------------- *)
NumFrames == Len(frames)

Last(s) == s[Len(s)]

\* next_start: a copy of the sample with both colour fields forced to zero.
Blanked(s) == [s EXCEPT !.rg = 0, !.b = 0]

Repeat(s, n) == [k \in 1..n |-> s]

\* A variant of Fixup that blanks the first sample of the next frame where
\* it stands instead of blanking a copy of it.
FixupBlanksInPlace(fs, idx) ==
  LET n == Len(fs)
      next == fs[((idx + 1) % n) + 1]
      next_start == Blanked(next[1])
      cur == fs[(idx % n) + 1]
      cur_end == Last(cur)
  IN [fs EXCEPT ![(idx % n) + 1] =
                  cur \o Repeat(cur_end, fixup_points) \o Repeat(next_start, fixup_points),
                ![((idx + 1) % n) + 1] = [next EXCEPT ![1] = next_start]]

\* One iteration of the loop body for loop value idx (frames are 0-based in
\* the source): the frame at idx % num_frames gets fixup_points copies of its
\* current last sample and fixup_points copies of the blanked first sample of
\* the frame at (idx + 1) % num_frames, both read from the vector as it is now.
Fixup(fs, idx) ==
  LET n == Len(fs)
      next == fs[((idx + 1) % n) + 1]
      next_start == Blanked(next[1])
      cur == fs[(idx % n) + 1]
      cur_end == Last(cur)
  IN [fs EXCEPT ![(idx % n) + 1] =
        cur \o Repeat(cur_end, fixup_points) \o Repeat(next_start, fixup_points)]

\* The bound of `for i in 0..=num_frames`: the last value the loop takes.
LoopLast(n) == n

NewFixup ==
  /\ apc = "new"
  /\ NumFrames > 1
  /\ i <= LoopLast(NumFrames)
  /\ frames' = Fixup(frames, i)
  /\ i' = i + 1
  /\ UNCHANGED <<supplied, delay_ms, apc, fi, plays, playLog, playResult, ctlVars, extVars>>

NewReturn ==
  /\ apc = "new"
  /\ (NumFrames > 1 => i > LoopLast(NumFrames))
  /\ apc' = "built"
  /\ UNCHANGED <<supplied, frames, delay_ms, i, fi, plays, playLog, playResult, ctlVars, extVars>>

(* --------------------------- Animation::play -------------------------- *)
BulkWrite(bytes, t) == [kind |-> "write", bytes |-> bytes, n |-> t.n, ms |-> 0]
Sleep(ms) == [kind |-> "sleep", bytes |-> <<>>, n |-> 0, ms |-> ms]

\* `for frame in &self.frames`: the iterator is exhausted once every frame
\* has been visited.
IterDoneEarly(idx, n) == idx + 1 >= n

IterDone(idx, n) == idx >= n

\* examples/animated.rs: `loop { anim.play(&device)?; }`
PlayCall ==
  /\ \/ apc = "built"
     \/ apc = "returned" /\ playResult = Ok
  /\ plays < MaxPlays
  /\ apc' = "play"
  /\ fi' = 0
  /\ plays' = plays + 1
  /\ playLog' = <<>>
  /\ playResult' = None
  /\ UNCHANGED <<supplied, frames, delay_ms, i, ctlVars, extVars>>

\* A variant of PlayDraw that drops the Result of draw and goes on.
PlayDrawIgnoresError ==
  /\ apc = "play"
  /\ ~IterDone(fi, NumFrames)
  /\ \E t \in BulkWriteOutcomes(Len(CastSlice(frames[fi + 1]))) :
       /\ playLog' = Append(playLog, BulkWrite(CastSlice(frames[fi + 1]), t))
       /\ apc' = "sleep"
       /\ playResult' = playResult
  /\ UNCHANGED <<supplied, frames, delay_ms, i, fi, plays, ctlVars, extVars>>

\* frame.draw(device)?
PlayDraw ==
  /\ apc = "play"
  /\ ~IterDone(fi, NumFrames)
  /\ \E t \in BulkWriteOutcomes(Len(CastSlice(frames[fi + 1]))) :
       LET r == Draw(frames[fi + 1], t) IN
       /\ playLog' = Append(playLog, BulkWrite(CastSlice(frames[fi + 1]), t))
       /\ IF r = Ok
          THEN apc' = "sleep" /\ playResult' = playResult
          ELSE apc' = "returned" /\ playResult' = r
  /\ UNCHANGED <<supplied, frames, delay_ms, i, fi, plays, ctlVars, extVars>>

\* sleep(sleep_dur), then the iterator moves on to the next frame
PlaySleepSkipsFrame ==
  /\ apc = "sleep"
  /\ playLog' = Append(playLog, Sleep(delay_ms))
  /\ fi' = fi + 2
  /\ apc' = "play"
  /\ UNCHANGED <<supplied, frames, delay_ms, i, plays, playResult, ctlVars, extVars>>

PlaySleep ==
  /\ apc = "sleep"
  /\ playLog' = Append(playLog, Sleep(delay_ms))
  /\ fi' = fi + 1
  /\ apc' = "play"
  /\ UNCHANGED <<supplied, frames, delay_ms, i, plays, playResult, ctlVars, extVars>>

\* the iterator is exhausted: Ok(())
PlayReturn ==
  /\ apc = "play"
  /\ IterDone(fi, NumFrames)
  /\ apc' = "returned"
  /\ playResult' = Ok
  /\ UNCHANGED <<supplied, frames, delay_ms, i, fi, plays, playLog, ctlVars, extVars>>

(* ------------------------- control: idle state ------------------------ *)
\* lastExchange: the request, what write_bulk answered (w), whether read_bulk
\* was called and what it answered (r), the receive buffer, the Result.
NoTransfer == [err |-> FALSE, n |-> 0]

NoExchange == [req |-> <<>>, w |-> NoTransfer, didRead |-> FALSE, r |-> NoTransfer,
               recv |-> <<>>, result |-> None]

\* u32 values; the largest is 0x7fffffff, which has all four bytes nonzero.
DacValues == {500, 1000, 20000, 50000, 2147483647}

\* lastSend before any call of send
NoSend == [buf |-> <<>>, t |-> NoTransfer, result |-> None]

\* no operation called on a session yet
SesIdle ==
  /\ op = "none"
  /\ opValue = 0
  /\ opResult = None
  /\ opCalls = 0

\* the streaming program is not running
StrIdle ==
  /\ output_points = <<>>
  /\ offset = 0
  /\ spc = "idle"
  /\ sentLog = <<>>
  /\ lastSend = NoSend
  /\ passes = 0

NoSample == [rg |-> 0, b |-> 0, x |-> 0, y |-> 0]

NoArguments == [r |-> 0, g |-> 0, b |-> 0,
                x |-> [kind |-> "num", n |-> 0], y |-> [kind |-> "num", n |-> 0]]

\* the encoding program is not running
CodIdle ==
  /\ codecIn = NoArguments
  /\ codecOut = NoSample
  /\ qpc = "idle"

CtlIdle ==
  /\ cpc = "idle"
  /\ dev = [control_read |-> TRUE, control_write |-> TRUE, data_write |-> TRUE,
            output |-> FALSE, min_rate |-> 1000, max_rate |-> 50000]
  /\ logDebug = FALSE
  /\ diagIdx = 0
  /\ ctlLog = <<>>
  /\ lastExchange = NoExchange
  /\ openResult = None
  /\ rateReq = 0
  /\ rateMin = 0
  /\ rateMax = 0
  /\ rateResult = None
  /\ rateCalls = 0

(* --------------------------- SpecAnimation ---------------------------- *)
DelayChoices == {15, 20}

\* The frames a caller can hand to Animation::new: up to MaxFrames frames of
\* 1..MaxFrameLen samples each (an empty frame is invalid, spec section 3).
SuppliedFrames ==
  UNION { { [f \in 1..n |->
                [k \in 1..lens[f] |-> Sample(FrameColour(first, f - 1), f - 1, k - 1)]] :
              lens \in [1..n -> 1..MaxFrameLen], first \in 0..1 } :
          n \in 0..MaxFrames }

InitAnimation ==
  /\ supplied \in SuppliedFrames
  /\ frames = supplied
  /\ delay_ms \in DelayChoices
  /\ i = 0
  /\ apc = "new"
  /\ fi = 0
  /\ plays = 0
  /\ playLog = <<>>
  /\ playResult = None
  /\ CtlIdle
  /\ SesIdle
  /\ StrIdle
  /\ CodIdle

NextAnimation ==
  \/ NewFixup
  \/ NewReturn
  \/ PlayCall
  \/ PlayDraw
  \/ PlaySleep
  \/ PlayReturn

SpecAnimation == InitAnimation /\ [][NextAnimation]_vars

(* ======================= the control channel ========================== *)
MaxRateCalls == 2

\* enum SetCommand / enum GetCommand: the command bytes
Set_ClearRingBuffer == 141
Set_EnableOutput == 128
Set_DacRate == 130
Get_OutputEnabled == 129
Get_DacRate == 131
Get_MaxDacRate == 132
Get_MinDacRate == 135
Get_MaxDacValue == 136
Get_VersionMajor == 139
Get_VersionMinor == 140

\* the bytes in big-endian order (to_be_bytes)
ToBeBytes(v) ==
  << (v \div 16777216) % 256, (v \div 65536) % 256, (v \div 256) % 256, v % 256 >>

\* u32::to_le_bytes
ToLeBytes(v) ==
  << v % 256, (v \div 256) % 256, (v \div 65536) % 256, (v \div 16777216) % 256 >>

\* A variant of BufToU32 that takes its low byte from offset 0.
BufToU32Byte0(buf) == buf[1] + 256 * buf[4] + 65536 * buf[5] + 16777216 * buf[6]

\* impl From<Buf> for u32: from_le_bytes(buf[2..6])
BufToU32(buf) == buf[3] + 256 * buf[4] + 65536 * buf[5] + 16777216 * buf[6]

\* impl From<Buf> for u8: buf[2]
BufToU8(buf) == buf[3]

\* Buf::new(): RECV_BUF_LEN zero bytes
BufNew == [k \in 1..RECV_BUF_LEN |-> 0]

(* ------------------------------ the device ---------------------------- *)
StatusBytes == {0, 1, 255}
FillBytes == {0, 170}
OtherValues == {0, 1}
ReadLens == {RECV_BUF_LEN, RECV_BUF_LEN - 1, 2, 0}

\* A response packet of the device: byte 0, the status byte, a 32-bit
\* little-endian value, and 58 further bytes.
Packet(b0, status, value, fill) ==
  <<b0, status>> \o ToLeBytes(value) \o [k \in 1..(RECV_BUF_LEN - 6) |-> fill]

\* The value the device reports for a command: its DAC rate limits for the
\* two rate queries, anything for the others.
DeviceValues(cmd) ==
  IF cmd = Get_MinDacRate THEN {dev.min_rate}
  ELSE IF cmd = Get_MaxDacRate THEN {dev.max_rate}
  ELSE OtherValues

\* What libusb's read_bulk can answer to a request: an error, or n bytes of a
\* packet of the device (all 64, or fewer).
ReadOutcomes(req) ==
  { [err |-> TRUE, n |-> 0, data |-> <<>>] } \cup
  { [err |-> FALSE, n |-> n, data |-> SubSeq(Packet(b0, st, v, fill), 1, n)] :
      n \in ReadLens, b0 \in {0, req[1]}, st \in StatusBytes,
      v \in DeviceValues(req[1]), fill \in FillBytes }

\* read_bulk(&mut recv): the bytes read overwrite the start of the buffer
Filled(buf, data) == [k \in 1..Len(buf) |-> IF k <= Len(data) THEN data[k] ELSE buf[k]]

(* ------------------------- LaserCube::write_buf ----------------------- *)
\* The checks of write_buf, in the order of the source.  w is the answer of
\* write_bulk, r the answer of read_bulk (asked only after a complete write).
\* A variant of WriteComplete that looks at the transport error only.
WriteCompleteAnyCount(buf, w) == ~w.err

WriteComplete(buf, w) == ~w.err /\ w.n = Len(buf)

\* write_buf looking for the status at offset 0 instead of offset 1
WriteBufResultStatusAt0(buf, w, r) ==
  LET recv == Filled(BufNew, r.data) IN
  IF w.err THEN UsbError
  ELSE IF w.n # Len(buf) THEN IncompleteWrite(w.n, Len(buf))
  ELSE IF r.err THEN UsbError
  ELSE IF r.n # RECV_BUF_LEN THEN IncompleteResponse(r.n, RECV_BUF_LEN)
  ELSE IF recv[1] # 0 THEN UnexpectedContent(recv[1], 0)
  ELSE Ok

\* write_buf refusing only an empty response
WriteBufResultEmptyOnly(buf, w, r) ==
  LET recv == Filled(BufNew, r.data) IN
  IF w.err THEN UsbError
  ELSE IF w.n # Len(buf) THEN IncompleteWrite(w.n, Len(buf))
  ELSE IF r.err THEN UsbError
  ELSE IF r.n = 0 THEN IncompleteResponse(r.n, RECV_BUF_LEN)
  ELSE IF recv[2] # 0 THEN UnexpectedContent(recv[2], 0)
  ELSE Ok

WriteBufResult(buf, w, r) ==
  LET recv == Filled(BufNew, r.data) IN
  IF w.err THEN UsbError
  ELSE IF w.n # Len(buf) THEN IncompleteWrite(w.n, Len(buf))
  ELSE IF r.err THEN UsbError
  ELSE IF r.n # RECV_BUF_LEN THEN IncompleteResponse(r.n, RECV_BUF_LEN)
  ELSE IF recv[2] # 0 THEN UnexpectedContent(recv[2], 0)
  ELSE Ok

WriteBuf(buf, w, r) ==
  IF WriteComplete(buf, w)
  THEN [req |-> buf, w |-> w, didRead |-> TRUE, r |-> [err |-> r.err, n |-> r.n],
        recv |-> IF r.err THEN BufNew ELSE Filled(BufNew, r.data),
        result |-> WriteBufResult(buf, w, r)]
  ELSE [req |-> buf, w |-> w, didRead |-> FALSE, r |-> NoTransfer,
        recv |-> <<>>, result |-> WriteBufResult(buf, w, r)]

\* The exchanges a request can end in.
Exchanges(buf) ==
  { WriteBuf(buf, w, r) : w \in BulkWriteOutcomes(Len(buf)), r \in ReadOutcomes(buf) }

\* LaserCube::read::<u32>: write_buf(&[command as u8]) and decode
ReadRequest(command) == <<command>>

\* LaserCube::write_u8
WriteU8Request(command, value) == <<command, value>>

\* write_u32 pushing the value's bytes most significant first
WriteU32RequestBigEndian(command, value) == <<command>> \o ToBeBytes(value)

\* LaserCube::write_u32
WriteU32Request(command, value) == <<command>> \o ToLeBytes(value)

\* clear_ringbuffer: write_u8(SetCommand::ClearRingBuffer, 0)
ClearRingbufferRequest == WriteU8Request(Set_ClearRingBuffer, 0)

\* enable_output: write_u8(SetCommand::EnableOutput, 1)
EnableOutputRequest == WriteU8Request(Set_EnableOutput, 1)

\* disable_output: write_u8(SetCommand::EnableOutput, 0)
DisableOutputRequest == WriteU8Request(Set_EnableOutput, 0)

\* min_dac_rate: read::<u32>(GetCommand::MinDacRate)
MinDacRateRequest == ReadRequest(Get_MinDacRate)

\* max_dac_rate: read::<u32>(GetCommand::MaxDacRate)
MaxDacRateRequest == ReadRequest(Get_MaxDacRate)

\* read::<T>: recv.into()
Read(T, recv) == IF T = "u32" THEN BufToU32(recv) ELSE BufToU8(recv)

(* ---------------------------- the control log ------------------------- *)
Resolved(ep, ok) == [kind |-> "resolve", what |-> ep, req |-> <<>>, ok |-> ok]
Configured(ep, ok) == [kind |-> "configure", what |-> ep, req |-> <<>>, ok |-> ok]
Queried(what, ok) == [kind |-> "usb_query", what |-> what, req |-> <<>>, ok |-> ok]
Exchanged(x) == [kind |-> "exchange", what |-> "control", req |-> x.req, ok |-> (x.result = Ok)]
Verified(ok) == [kind |-> "verify", what |-> "output_enabled", req |-> <<>>, ok |-> ok]

(* ---------------------------- LaserCube::new -------------------------- *)
EndpointNotFound == [tag |-> "EndpointNotFound", a |-> 0, b |-> 0]
OutputEnableFailed == [tag |-> "OutputEnableFailed", a |-> 0, b |-> 0]

\* The statements of LaserCube::new, in the order of the source.
OpenProgramEnableFirst ==
  << "open_handles", "find_control_read", "find_control_write",
     "configure_control_read", "configure_control_write",
     "find_data_write", "configure_data_write",
     "diagnostics", "enable_output", "clear_ringbuffer", "output_enabled", "ready" >>

OpenProgram ==
  << "open_handles", "find_control_read", "find_control_write",
     "configure_control_read", "configure_control_write",
     "find_data_write", "configure_data_write",
     "diagnostics", "clear_ringbuffer", "enable_output", "output_enabled", "ready" >>

StepAfter(step) ==
  OpenProgram[(CHOOSE k \in 1..Len(OpenProgram) : OpenProgram[k] = step) + 1]

EndpointOf(step) ==
  CASE step \in {"find_control_read", "configure_control_read"} -> "control_read"
    [] step \in {"find_control_write", "configure_control_write"} -> "control_write"
    [] step \in {"find_data_write", "configure_data_write"} -> "data_write"

OpenFails(result) ==
  /\ cpc' = "failed"
  /\ openResult' = result

\* device.open()?, twice
OpenHandles ==
  /\ cpc = "open_handles"
  /\ \E ok \in BOOLEAN :
       IF ok THEN cpc' = StepAfter(cpc) /\ openResult' = openResult
       ELSE OpenFails(UsbError)
  /\ UNCHANGED <<dev, logDebug, diagIdx, ctlLog, lastExchange,
                 rateReq, rateMin, rateMax, rateResult, rateCalls, animVars, extVars>>

\* A variant of OpenFind that goes on without the endpoint.
OpenFindIgnoresMissing ==
  /\ cpc \in {"find_control_read", "find_control_write", "find_data_write"}
  /\ ctlLog' = Append(ctlLog, Resolved(EndpointOf(cpc), dev[EndpointOf(cpc)]))
  /\ cpc' = StepAfter(cpc)
  /\ openResult' = openResult
  /\ UNCHANGED <<dev, logDebug, diagIdx, lastExchange,
                 rateReq, rateMin, rateMax, rateResult, rateCalls, animVars, extVars>>

\* find_bulk_endpoint(..).ok_or(..)?
OpenFind ==
  /\ cpc \in {"find_control_read", "find_control_write", "find_data_write"}
  /\ ctlLog' = Append(ctlLog, Resolved(EndpointOf(cpc), dev[EndpointOf(cpc)]))
  /\ IF dev[EndpointOf(cpc)]
     THEN cpc' = StepAfter(cpc) /\ openResult' = openResult
     ELSE OpenFails(EndpointNotFound)
  /\ UNCHANGED <<dev, logDebug, diagIdx, lastExchange,
                 rateReq, rateMin, rateMax, rateResult, rateCalls, animVars, extVars>>

\* configure_endpoint(..)?
OpenConfigure ==
  /\ cpc \in {"configure_control_read", "configure_control_write", "configure_data_write"}
  /\ \E ok \in BOOLEAN :
       /\ ctlLog' = Append(ctlLog, Configured(EndpointOf(cpc), ok))
       /\ IF ok THEN cpc' = StepAfter(cpc) /\ openResult' = openResult
          ELSE OpenFails(UsbError)
  /\ UNCHANGED <<dev, logDebug, diagIdx, lastExchange,
                 rateReq, rateMin, rateMax, rateResult, rateCalls, animVars, extVars>>

\* if log_enabled!(log::Level::Debug) { .. }: not taken
OpenSkipDiagnostics ==
  /\ cpc = "diagnostics"
  /\ ~logDebug
  /\ cpc' = StepAfter(cpc)
  /\ UNCHANGED <<dev, logDebug, diagIdx, ctlLog, lastExchange, openResult,
                 rateReq, rateMin, rateMax, rateResult, rateCalls, animVars, extVars>>

\* diagnostics(): read_languages, active_configuration and the descriptor
\* strings (the strings fall back to "?" and cannot fail the call)
DiagDescriptors ==
  /\ cpc = "diagnostics"
  /\ logDebug
  /\ diagIdx = 0
  /\ \E ok \in BOOLEAN :
       /\ ctlLog' = Append(ctlLog, Queried("descriptors", ok))
       /\ IF ok THEN cpc' = cpc /\ diagIdx' = 1 /\ openResult' = openResult
          ELSE diagIdx' = diagIdx /\ OpenFails(UsbError)
  /\ UNCHANGED <<dev, logDebug, lastExchange,
                 rateReq, rateMin, rateMax, rateResult, rateCalls, animVars, extVars>>

\* diagnostics(): the queries, in the order they are evaluated
DiagCommands ==
  << Get_VersionMajor, Get_VersionMinor, Get_MinDacRate, Get_MaxDacRate,
     Get_DacRate, Get_MaxDacValue >>

DiagGet ==
  /\ cpc = "diagnostics"
  /\ logDebug
  /\ diagIdx \in 1..Len(DiagCommands)
  /\ \E x \in Exchanges(ReadRequest(DiagCommands[diagIdx])) :
       /\ lastExchange' = x
       /\ ctlLog' = Append(ctlLog, Exchanged(x))
       /\ IF x.result = Ok
          THEN /\ openResult' = openResult
               /\ IF diagIdx = Len(DiagCommands)
                  THEN cpc' = StepAfter(cpc) /\ diagIdx' = 0
                  ELSE cpc' = cpc /\ diagIdx' = diagIdx + 1
          ELSE diagIdx' = diagIdx /\ OpenFails(x.result)
  /\ UNCHANGED <<dev, logDebug, rateReq, rateMin, rateMax, rateResult, rateCalls, animVars, extVars>>

\* clear_ringbuffer()?
OpenClear ==
  /\ cpc = "clear_ringbuffer"
  /\ \E x \in Exchanges(ClearRingbufferRequest) :
       /\ lastExchange' = x
       /\ ctlLog' = Append(ctlLog, Exchanged(x))
       /\ IF x.result = Ok THEN cpc' = StepAfter(cpc) /\ openResult' = openResult
          ELSE OpenFails(x.result)
  /\ UNCHANGED <<dev, logDebug, diagIdx, rateReq, rateMin, rateMax, rateResult, rateCalls, animVars, extVars>>

\* enable_output()?  A device that got the whole request may or may not turn
\* its output on.
OpenEnable ==
  /\ cpc = "enable_output"
  /\ \E x \in Exchanges(EnableOutputRequest), on \in BOOLEAN :
       /\ lastExchange' = x
       /\ ctlLog' = Append(ctlLog, Exchanged(x))
       /\ dev' = [dev EXCEPT !.output = IF x.didRead THEN on ELSE @]
       /\ IF x.result = Ok THEN cpc' = StepAfter(cpc) /\ openResult' = openResult
          ELSE OpenFails(x.result)
  /\ UNCHANGED <<logDebug, diagIdx, rateReq, rateMin, rateMax, rateResult, rateCalls, animVars, extVars>>

\* LaserCube::output_enabled
OutputEnabled == TRUE

\* if !laser_cube.output_enabled()? { return Err(..) } ... Ok(laser_cube)
OpenVerify ==
  /\ cpc = "output_enabled"
  /\ ctlLog' = Append(ctlLog, Verified(OutputEnabled))
  /\ IF ~OutputEnabled THEN OpenFails(OutputEnableFailed)
     ELSE cpc' = StepAfter(cpc) /\ openResult' = Ok
  /\ UNCHANGED <<dev, logDebug, diagIdx, lastExchange,
                 rateReq, rateMin, rateMax, rateResult, rateCalls, animVars, extVars>>

(* ------------------------ LaserCube::set_dac_rate --------------------- *)
Panicked == [tag |-> "Panicked", a |-> 0, b |-> 0]

\* Ord::clamp, defined for min <= max (it asserts min <= max)
ClampLow(v, min, max) == IF v < min THEN min ELSE v

Clamp(v, min, max) == IF v < min THEN min ELSE IF v > max THEN max ELSE v

\* entry of set_dac_rate(rate)
SetDacRateEnter ==
  /\ cpc = "ready"
  /\ rateCalls < MaxRateCalls
  /\ rateCalls' = rateCalls + 1
  /\ rateReq' \in DacValues
  /\ rateMin' = 0
  /\ rateMax' = 0
  /\ rateResult' = None
  /\ ctlLog' = <<>>
  /\ lastExchange' = NoExchange
  /\ cpc' = "rate_min"

SetDacRateCall ==
  /\ SetDacRateEnter
  /\ UNCHANGED <<dev, logDebug, diagIdx, openResult, animVars, extVars>>

SetDacRateFails(result) ==
  /\ cpc' = "ready"
  /\ rateResult' = result

\* let min = self.min_dac_rate()?;
SetDacRateMin ==
  /\ cpc = "rate_min"
  /\ \E x \in Exchanges(MinDacRateRequest) :
       /\ lastExchange' = x
       /\ ctlLog' = Append(ctlLog, Exchanged(x))
       /\ IF x.result = Ok
          THEN cpc' = "rate_max" /\ rateMin' = Read("u32", x.recv) /\ rateResult' = rateResult
          ELSE rateMin' = rateMin /\ SetDacRateFails(x.result)
  /\ UNCHANGED <<dev, logDebug, diagIdx, openResult, rateReq, rateMax, rateCalls, animVars, extVars>>

\* let max = self.max_dac_rate()?;
SetDacRateMax ==
  /\ cpc = "rate_max"
  /\ \E x \in Exchanges(MaxDacRateRequest) :
       /\ lastExchange' = x
       /\ ctlLog' = Append(ctlLog, Exchanged(x))
       /\ IF x.result = Ok
          THEN cpc' = "rate_write" /\ rateMax' = Read("u32", x.recv) /\ rateResult' = rateResult
          ELSE rateMax' = rateMax /\ SetDacRateFails(x.result)
  /\ UNCHANGED <<dev, logDebug, diagIdx, openResult, rateReq, rateMin, rateCalls, animVars, extVars>>

\* rate.clamp(min, max) aborts the program when min > max
SetDacRatePanics ==
  /\ cpc = "rate_write"
  /\ rateMin > rateMax
  /\ cpc' = "panicked"
  /\ rateResult' = Panicked
  /\ UNCHANGED <<dev, logDebug, diagIdx, ctlLog, lastExchange, openResult,
                 rateReq, rateMin, rateMax, rateCalls, animVars, extVars>>

\* self.write_u32(SetCommand::DacRate, rate.clamp(min, max))
SetDacRateWrite ==
  /\ cpc = "rate_write"
  /\ rateMin <= rateMax
  /\ \E x \in Exchanges(WriteU32Request(Set_DacRate, Clamp(rateReq, rateMin, rateMax))) :
       /\ lastExchange' = x
       /\ ctlLog' = Append(ctlLog, Exchanged(x))
       /\ cpc' = "ready"
       /\ rateResult' = x.result
  /\ UNCHANGED <<dev, logDebug, diagIdx, openResult, rateReq, rateMin, rateMax,
                 rateCalls, animVars, extVars>>

(* ----------------------------- SpecControl ---------------------------- *)
AnimIdle ==
  /\ supplied = <<>>
  /\ frames = <<>>
  /\ delay_ms = 0
  /\ i = 0
  /\ apc = "idle"
  /\ fi = 0
  /\ plays = 0
  /\ playLog = <<>>
  /\ playResult = None

InitControl ==
  /\ cpc = "open_handles"
  /\ dev \in [control_read : BOOLEAN, control_write : BOOLEAN, data_write : BOOLEAN,
              output : {FALSE}, min_rate : DacValues, max_rate : DacValues]
  /\ logDebug \in BOOLEAN
  /\ diagIdx = 0
  /\ ctlLog = <<>>
  /\ lastExchange = NoExchange
  /\ openResult = None
  /\ rateReq = 0
  /\ rateMin = 0
  /\ rateMax = 0
  /\ rateResult = None
  /\ rateCalls = 0
  /\ AnimIdle
  /\ SesIdle
  /\ StrIdle
  /\ CodIdle

NextControl ==
  \/ OpenHandles
  \/ OpenFind
  \/ OpenConfigure
  \/ OpenSkipDiagnostics
  \/ DiagDescriptors
  \/ DiagGet
  \/ OpenClear
  \/ OpenEnable
  \/ OpenVerify
  \/ SetDacRateCall
  \/ SetDacRateMin
  \/ SetDacRateMax
  \/ SetDacRatePanics
  \/ SetDacRateWrite

SpecControl == InitControl /\ [][NextControl]_vars

(* ===================== operations on an open session ================== *)
MaxOpCalls == 1

\* The session is open and no operation is running on it.
SessionReady == cpc = "ready" /\ op = "none" /\ opCalls < MaxOpCalls

\* A single-exchange operation called on the session: one call of write_buf.

SessionExchange(name, x) ==
  /\ opCalls' = opCalls + 1
  /\ op' = name
  /\ lastExchange' = x
  /\ ctlLog' = <<Exchanged(x)>>
  /\ opResult' = x.result
  /\ rateReq' = 0
  /\ rateMin' = 0
  /\ rateMax' = 0
  /\ rateResult' = None
  /\ UNCHANGED <<cpc, logDebug, diagIdx, openResult, rateCalls, animVars, strVars, codVars>>

\* LaserCube::clear_ringbuffer
ClearRingbuffer ==
  /\ SessionReady
  /\ \E x \in Exchanges(ClearRingbufferRequest) :
       /\ SessionExchange("clear_ringbuffer", x)
       /\ opValue' = 0
       /\ UNCHANGED dev

\* LaserCube::enable_output
EnableOutput ==
  /\ SessionReady
  /\ \E x \in Exchanges(EnableOutputRequest), on \in BOOLEAN :
       /\ SessionExchange("enable_output", x)
       /\ opValue' = 0
       /\ dev' = [dev EXCEPT !.output = IF x.didRead THEN on ELSE @]

\* LaserCube::disable_output
DisableOutput ==
  /\ SessionReady
  /\ \E x \in Exchanges(DisableOutputRequest), on \in BOOLEAN :
       /\ SessionExchange("disable_output", x)
       /\ opValue' = 0
       /\ dev' = [dev EXCEPT !.output = IF x.didRead THEN on ELSE @]

\* LaserCube::min_dac_rate
MinDacRate ==
  /\ SessionReady
  /\ \E x \in Exchanges(MinDacRateRequest) :
       /\ SessionExchange("min_dac_rate", x)
       /\ opValue' = IF x.result = Ok THEN Read("u32", x.recv) ELSE 0
       /\ UNCHANGED dev

\* LaserCube::max_dac_rate
MaxDacRate ==
  /\ SessionReady
  /\ \E x \in Exchanges(MaxDacRateRequest) :
       /\ SessionExchange("max_dac_rate", x)
       /\ opValue' = IF x.result = Ok THEN Read("u32", x.recv) ELSE 0
       /\ UNCHANGED dev

\* LaserCube::read::<u8>, the 8-bit instance of read
ReadU8 ==
  /\ SessionReady
  /\ \E x \in Exchanges(ReadRequest(Get_OutputEnabled)) :
       /\ SessionExchange("read_u8", x)
       /\ opValue' = IF x.result = Ok THEN Read("u8", x.recv) ELSE 0
       /\ UNCHANGED dev

\* LaserCube::set_dac_rate called on the session
SessionSetDacRate ==
  /\ SessionReady
  /\ SetDacRateEnter
  /\ opCalls' = opCalls + 1
  /\ op' = "set_dac_rate"
  /\ opValue' = 0
  /\ opResult' = None
  /\ UNCHANGED <<dev, logDebug, diagIdx, openResult, animVars, strVars, codVars>>

\* The operation has returned and its caller is done with the Result (the
\* examples pass it to `?`): the session is ready for the next call.
SessionReturn ==
  /\ cpc = "ready"
  /\ op # "none"
  /\ op' = "none"
  /\ opValue' = 0
  /\ opResult' = None
  /\ lastExchange' = NoExchange
  /\ ctlLog' = <<>>
  /\ rateReq' = 0
  /\ rateMin' = 0
  /\ rateMax' = 0
  /\ rateResult' = None
  /\ UNCHANGED <<cpc, dev, logDebug, diagIdx, openResult, rateCalls, opCalls,
                 animVars, strVars, codVars>>

InitSession ==
  /\ cpc = "ready"
  /\ dev \in [control_read : {TRUE}, control_write : {TRUE}, data_write : {TRUE},
              output : BOOLEAN, min_rate : DacValues, max_rate : DacValues]
  /\ logDebug = FALSE
  /\ diagIdx = 0
  /\ ctlLog = <<>>
  /\ lastExchange = NoExchange
  /\ openResult = Ok
  /\ rateReq = 0
  /\ rateMin = 0
  /\ rateMax = 0
  /\ rateResult = None
  /\ rateCalls = 0
  /\ AnimIdle
  /\ SesIdle
  /\ StrIdle
  /\ CodIdle

NextSession ==
  \/ ClearRingbuffer
  \/ EnableOutput
  \/ DisableOutput
  \/ MinDacRate
  \/ MaxDacRate
  \/ ReadU8
  \/ SessionSetDacRate
  \/ SessionReturn
  \/ SetDacRateMin
  \/ SetDacRateMax
  \/ SetDacRatePanics
  \/ SetDacRateWrite

SpecSession == InitSession /\ [][NextSession]_vars

(* ========================= the sample codec =========================== *)
\* Floating-point coordinates are the multiples of 1 / 2^GridBits of absolute
\* value up to MaxAbsCoord, the two infinities and NaN.  On such a grid the
\* f32 and f64 evaluations of 4095. * (f + 1.0) / 2.0 are exact, so the two
\* From impls agree and are computed here on the numerator n of f = n / Den.
GridBits == 3
MaxAbsCoord == 5

RECURSIVE Pow2(_)
Pow2(k) == IF k = 0 THEN 1 ELSE 2 * Pow2(k - 1)

Den == Pow2(GridBits)

Num(n) == [kind |-> "num", n |-> n]
PlusInf == [kind |-> "inf", n |-> 1]
MinusInf == [kind |-> "inf", n |-> -1]
NaN == [kind |-> "nan", n |-> 0]

Coordinates ==
  { Num(n) : n \in (-MaxAbsCoord * Den)..(MaxAbsCoord * Den) } \cup {PlusInf, MinusInf, NaN}

\* a clamp with the wrong limits, [-2, 2]
ClampTwo(f) ==
  IF f.kind = "nan" THEN f
  ELSE IF f.kind = "inf" THEN Num(f.n * 2 * Den)
  ELSE IF f.n < -2 * Den THEN Num(-2 * Den)
  ELSE IF f.n > 2 * Den THEN Num(2 * Den)
  ELSE f

\* f.clamp(-1., 1.): NaN stays NaN
ClampUnit(f) ==
  IF f.kind = "nan" THEN f
  ELSE IF f.kind = "inf" THEN Num(f.n * Den)
  ELSE IF f.n < -Den THEN Num(-Den)
  ELSE IF f.n > Den THEN Num(Den)
  ELSE f

\* `as u16` of the non-NaN value num / den (den > 0): the fraction is dropped
\* (rounding toward zero) and the result saturates at 0 and 65535.
AsU16(num, den) ==
  IF num < 0 THEN 0
  ELSE IF num \div den > 65535 THEN 65535
  ELSE num \div den

\* impl From<f64> for XY, impl From<f32> for XY: NaN casts to 0
Quantize(f) ==
  LET c == ClampUnit(f) IN
  IF c.kind = "nan" THEN 0 ELSE AsU16(4095 * (c.n + Den), 2 * Den)

\* XY::flip
Flip(q) == 4095 - q

\* LaserdockSample::new
NewLaserdockSample(r, g, b, x, y) ==
  [rg |-> r + 256 * g, b |-> b, x |-> Quantize(x), y |-> Quantize(y)]

ColourArguments == { <<0, 0, 0>>, <<10, 20, 80>> }

NewSample ==
  /\ qpc = "call"
  /\ codecOut' = NewLaserdockSample(codecIn.r, codecIn.g, codecIn.b, codecIn.x, codecIn.y)
  /\ qpc' = "done"
  /\ UNCHANGED <<codecIn, animVars, ctlVars, sesVars, strVars>>

InitCodec ==
  /\ codecIn \in { [r |-> c[1], g |-> c[2], b |-> c[3], x |-> x, y |-> y] :
                     c \in ColourArguments, x \in Coordinates, y \in Coordinates }
  /\ codecOut = NoSample
  /\ qpc = "call"
  /\ AnimIdle
  /\ CtlIdle
  /\ SesIdle
  /\ StrIdle

NextCodec == NewSample

SpecCodec == InitCodec /\ [][NextCodec]_vars

(* ------------------- the streaming loop of the examples --------------- *)
MaxPoints == 17
MaxPasses == 2

Min(a, b) == IF a < b THEN a ELSE b

\* A variant of NextChunk that hands out one sample less per batch.
NextChunkOneShort(points, off, size) ==
  SubSeq(points, off + 1, Min(off + size - 1, Len(points)))

\* slice::chunks(size): the chunk that starts after off samples; the last
\* chunk of a slice is the remainder when size does not divide its length.
NextChunk(points, off, size) ==
  SubSeq(points, off + 1, Min(off + size, Len(points)))

\* The points the examples stream: up to MaxPoints samples, all distinct,
\* their colours alternating from the one picked by first.
StreamPoints ==
  { [k \in 1..len |-> Sample(FrameColour(first, k - 1), k - 1, 4095 - (k - 1))] :
      len \in 0..MaxPoints, first \in 0..1 }

\* One iteration of `for chunk in output_points.chunks(SAMPLES_PER_BATCH)`:
\* lc.send_samples(chunk)?  The `?` leaves main on the first error.
StreamSend ==
  /\ spc = "stream"
  /\ offset < Len(output_points)
  /\ LET chunk == NextChunk(output_points, offset, SAMPLES_PER_BATCH)
         buf == CastSlice(chunk)
     IN \E t \in BulkWriteOutcomes(Len(buf)) :
          LET result == SendSamples(chunk, t) IN
          /\ lastSend' = [buf |-> buf, t |-> t, result |-> result]
          /\ sentLog' = Append(sentLog, [points |-> chunk, buf |-> buf, t |-> t,
                                         result |-> result])
          /\ IF result = Ok
             THEN /\ offset' = offset + Len(chunk)
                  /\ spc' = spc
             ELSE /\ offset' = offset
                  /\ spc' = "failed"
  /\ UNCHANGED <<output_points, passes, animVars, ctlVars, sesVars, codVars>>

\* The chunks are exhausted: the enclosing `loop` starts the next pass.
StreamLoop ==
  /\ spc = "stream"
  /\ offset = Len(output_points)
  /\ passes < MaxPasses
  /\ passes' = passes + 1
  /\ offset' = 0
  /\ sentLog' = <<>>
  /\ UNCHANGED <<output_points, spc, lastSend, animVars, ctlVars, sesVars, codVars>>

InitStream ==
  /\ output_points \in StreamPoints
  /\ offset = 0
  /\ spc = "stream"
  /\ sentLog = <<>>
  /\ lastSend = NoSend
  /\ passes = 0
  /\ AnimIdle
  /\ CtlIdle
  /\ SesIdle
  /\ CodIdle

NextStream ==
  \/ StreamSend
  \/ StreamLoop

SpecStream == InitStream /\ [][NextStream]_vars

(* ===================== claims on the animation ======================== *)
Built == apc # "new"

\* What the specification says frame f (1-based) is after the build of two
\* or more frames: the supplied frame, two copies of its own last sample, two
\* copies of the blanked first sample of the supplied next frame (wrapping).
ExpectedFrame(f) ==
  LET n == Len(supplied) IN
  supplied[f] \o Repeat(Last(supplied[f]), 2)
              \o Repeat(Blanked(supplied[(f % n) + 1][1]), 2)

\* C1: after Animation::new, with N >= 2 frames every frame has exactly 4
\* more samples than the supplied frame; with exactly 1 frame it has the same
\* number of samples.  (Stated as claimed; the code breaks it.)
C1_FourExtraSamples ==
  Built =>
    /\ Len(supplied) >= 2 =>
         \A f \in 1..Len(supplied) : Len(frames[f]) = Len(supplied[f]) + 4
    /\ Len(supplied) = 1 => Len(frames[1]) = Len(supplied[1])

\* C2: after Animation::new with N >= 2 frames, the samples appended to frame
\* i are two copies of the last sample of the ORIGINAL frame i, then two
\* blanked copies of the first sample of the ORIGINAL frame (i+1) mod N, and
\* nothing else.  (Stated as claimed; the code breaks it.)
C2_FixupFromOriginalFrames ==
  (Built /\ Len(supplied) >= 2) =>
    \A f \in 1..Len(supplied) : frames[f] = ExpectedFrame(f)

Writes(log) == { k \in 1..Len(log) : log[k].kind = "write" }

\* C3: every bulk transfer play writes to the data-write endpoint carries at
\* most 8 samples, that is at most 64 bytes.  (Stated as claimed; the code
\* breaks it.)
C3_TransfersAtMostOneBatch ==
  \A k \in Writes(playLog) :
    /\ Len(playLog[k].bytes) <= BYTES_PER_BATCH
    /\ Len(playLog[k].bytes) <= SAMPLES_PER_BATCH * SAMPLE_SIZE

PlayReturnedOk == apc = "returned" /\ playResult = Ok

\* C6 as claimed: play of an animation that has frames does not terminate on
\* its own when no transfer fails, that is it never returns success.
C6_PlayNeverReturnsOk == ~(PlayReturnedOk /\ NumFrames >= 1)

\* The log of one complete pass over the frames: frame, sleep, frame, sleep ...
FullPass ==
  [k \in 1..(2 * NumFrames) |->
     IF k % 2 = 1
     THEN [kind |-> "write", bytes |-> CastSlice(frames[(k + 1) \div 2]),
           n |-> Len(CastSlice(frames[(k + 1) \div 2])), ms |-> 0]
     ELSE Sleep(delay_ms)]

\* C6 as amended: one call of play is one pass.  When no transfer fails it
\* streams every frame exactly once, first to last, sleeps delay_ms after each
\* and returns success; frame 0 is streamed again only by the next call of
\* play, which starts at frame 0 again.
C6_PlayIsOnePass ==
  /\ PlayReturnedOk => playLog = FullPass
  /\ (apc \in {"play", "sleep"} /\ playLog # <<>>) =>
       /\ playLog[1].kind = "write"
       /\ playLog[1].bytes = CastSlice(frames[1])

C6_Witness == PlayReturnedOk /\ plays = 2 /\ NumFrames >= 2

\* C7: play streams the frames in index order 0, 1, ..., N-1, none skipped or
\* reordered, and between the complete transfer of a frame and the first byte
\* of the following frame it sleeps delay_ms: the log of a call of play is
\* always a prefix of frame 0, sleep, frame 1, sleep, ..., and a sleep follows
\* only a transfer that moved the whole frame.
C7_FramesInOrderWithDelay ==
  /\ Len(playLog) <= 2 * NumFrames
  /\ \A k \in 1..Len(playLog) :
       IF k % 2 = 1
       THEN /\ playLog[k].kind = "write"
            /\ playLog[k].bytes = CastSlice(frames[(k + 1) \div 2])
       ELSE /\ playLog[k] = Sleep(delay_ms)
            /\ playLog[k - 1].n = Len(playLog[k - 1].bytes)

C7_Witness == PlayReturnedOk /\ NumFrames = 3 /\ Len(playLog) = 6

\* The write k of the current call of play did not move all of its bytes.
FailedWrite(k) == playLog[k].kind = "write" /\ playLog[k].n # Len(playLog[k].bytes)

PlayFailed == playResult \notin {Ok, None}

\* C20: a failed write of frame k ends play at once with that error: the
\* failed write is the last thing play did (no later frame is written, the
\* frame is not written again, no delay follows), every frame before k was
\* written once and in full, and play returns an error exactly in this case.
C20_PlayStopsAtFailedFrame ==
  /\ \A k \in 1..Len(playLog) :
       FailedWrite(k) =>
         /\ k = Len(playLog)
         /\ apc = "returned"
         /\ playResult \in {UsbError, IncompleteWrite(playLog[k].n, Len(playLog[k].bytes))}
         /\ playLog[k].bytes = CastSlice(frames[(k + 1) \div 2])
         /\ \A j \in 1..(k - 1) : playLog[j].bytes # playLog[k].bytes
  /\ PlayFailed =>
       /\ apc = "returned"
       /\ playLog # <<>>
       /\ FailedWrite(Len(playLog))
       /\ Cardinality(Writes(playLog)) = fi + 1

\* the second of three frames was written one byte short
C20_Witness ==
  /\ NumFrames = 3
  /\ apc = "returned"
  /\ Len(playLog) = 3
  /\ playResult = IncompleteWrite(Len(playLog[3].bytes) - 1, Len(playLog[3].bytes))

\* C21: Animation::new only appends.  At every point of the build and ever
\* after, the animation has as many frames as were supplied, in the same
\* order, and each frame begins with the samples of the supplied frame,
\* unchanged in value and order: in particular its first sample and the
\* colours of the supplied samples are as supplied, the blanking touches
\* only the appended copies.
C21_BuildOnlyAppends ==
  /\ Len(frames) = Len(supplied)
  /\ \A f \in 1..Len(supplied) :
       /\ Len(frames[f]) >= Len(supplied[f])
       /\ SubSeq(frames[f], 1, Len(supplied[f])) = supplied[f]
       /\ frames[f][1] = supplied[f][1]
       /\ \A k \in 1..Len(supplied[f]) :
            frames[f][k].rg = supplied[f][k].rg /\ frames[f][k].b = supplied[f][k].b

\* two frames, the first one lit: it was extended, and the second frame ends
\* with the blanked copy of its first sample
C21_Witness ==
  /\ Built
  /\ Len(supplied) = 2
  /\ supplied[1][1].rg # 0
  /\ Len(frames[1]) > Len(supplied[1])
  /\ Last(frames[2]) = Blanked(supplied[1][1])
  /\ Last(frames[2]) # supplied[1][1]

(* ================== claims on the control channel ===================== *)
\* LaserCube::new has returned and nothing was called on the session since.
OpenReturned == cpc \in {"ready", "failed"} /\ rateCalls = 0

ExchangeOf(e, command) == e.kind = "exchange" /\ e.req[1] = command

EnableOutputAccepted ==
  \E k \in 1..Len(ctlLog) : ExchangeOf(ctlLog[k], Set_EnableOutput) /\ ctlLog[k].ok

\* C4: open fails with the output-enable failure whenever the device, after
\* the EnableOutput command was written, reports its output as not enabled;
\* open never returns a session for a device whose output is reported as
\* disabled.  (Stated as claimed; the code breaks it.)
C4_OpenFailsWhenOutputDisabled ==
  /\ (OpenReturned /\ EnableOutputAccepted /\ ~dev.output) =>
       openResult = OutputEnableFailed
  /\ (OpenReturned /\ openResult = Ok) => dev.output

Endpoints == {"control_read", "control_write", "data_write"}

DiagCommandSet == { DiagCommands[k] : k \in 1..Len(DiagCommands) }

\* The phase of LaserCube::new a log entry belongs to.
Phase(e) ==
  CASE e.kind \in {"resolve", "configure"} -> 1
    [] e.kind = "usb_query" -> 2
    [] e.kind = "exchange" /\ e.req[1] \in DiagCommandSet -> 2
    [] ExchangeOf(e, Set_ClearRingBuffer) -> 3
    [] ExchangeOf(e, Set_EnableOutput) -> 4
    [] e.kind = "verify" -> 5
    [] OTHER -> 0

Before(k, e) == \E j \in 1..(k - 1) : ctlLog[j] = e

\* C5: in every run of open, successful or not, the steps come in the order
\* endpoints resolved and configured, diagnostics queries (only with
\* diagnostics enabled, and then all of them), ClearRingBuffer, EnableOutput,
\* verification; no control command is written before the three endpoints are
\* resolved and configured, and EnableOutput is written only after
\* ClearRingBuffer has succeeded.
C5_OpenStepsInOrder ==
  rateCalls = 0 =>
    \A k \in 1..Len(ctlLog) :
      LET e == ctlLog[k] IN
      /\ Phase(e) >= 1
      /\ \A j \in 1..(k - 1) : Phase(ctlLog[j]) <= Phase(e) /\ ctlLog[j].ok
      /\ Phase(e) >= 2 =>
           \A ep \in Endpoints : Before(k, Resolved(ep, TRUE)) /\ Before(k, Configured(ep, TRUE))
      /\ Phase(e) = 2 => logDebug
      /\ (Phase(e) >= 3 /\ logDebug) =>
           /\ Before(k, Queried("descriptors", TRUE))
           /\ \A c \in DiagCommandSet :
                \E j \in 1..(k - 1) : ExchangeOf(ctlLog[j], c) /\ ctlLog[j].ok
      /\ Phase(e) = 3 => e.req = <<Set_ClearRingBuffer, 0>>
      /\ Phase(e) = 4 =>
           /\ e.req = <<Set_EnableOutput, 1>>
           /\ \E j \in 1..(k - 1) : ExchangeOf(ctlLog[j], Set_ClearRingBuffer) /\ ctlLog[j].ok
      /\ Phase(e) = 5 =>
           \E j \in 1..(k - 1) : ExchangeOf(ctlLog[j], Set_EnableOutput) /\ ctlLog[j].ok

C5_Witness ==
  /\ OpenReturned /\ openResult = Ok /\ logDebug
  /\ Len(ctlLog) = 6 + 1 + Len(DiagCommands) + 3

\* The 32-bit value carried by a request <<command, b0, b1, b2, b3>>.
RequestValue(req) == req[2] + 256 * req[3] + 65536 * req[4] + 16777216 * req[5]

SetDacRateReturned == cpc = "ready" /\ rateCalls > 0

\* C8: set_dac_rate(requested), on a device that reports min <= max, reads
\* MinDacRate, then MaxDacRate, then writes exactly one DacRate command; the
\* value written is min if requested < min, max if requested > max, and
\* requested otherwise, so a value outside [min, max] is never written.
C8_SetDacRateWritesClamped ==
  (rateCalls > 0 /\ dev.min_rate <= dev.max_rate) =>
    /\ \A k \in 1..Len(ctlLog) :
         ExchangeOf(ctlLog[k], Set_DacRate) =>
           /\ k = 3
           /\ ctlLog[1] = [kind |-> "exchange", what |-> "control",
                           req |-> <<Get_MinDacRate>>, ok |-> TRUE]
           /\ ctlLog[2] = [kind |-> "exchange", what |-> "control",
                           req |-> <<Get_MaxDacRate>>, ok |-> TRUE]
           /\ Len(ctlLog[k].req) = 5
           /\ RequestValue(ctlLog[k].req) >= dev.min_rate
           /\ RequestValue(ctlLog[k].req) <= dev.max_rate
           /\ rateReq < dev.min_rate => RequestValue(ctlLog[k].req) = dev.min_rate
           /\ rateReq > dev.max_rate => RequestValue(ctlLog[k].req) = dev.max_rate
           /\ (rateReq >= dev.min_rate /\ rateReq <= dev.max_rate) =>
                RequestValue(ctlLog[k].req) = rateReq
    /\ (SetDacRateReturned /\ Len(ctlLog) >= 2 /\ ctlLog[1].ok /\ ctlLog[2].ok) =>
         Len(ctlLog) = 3 /\ ExchangeOf(ctlLog[3], Set_DacRate)

C8_Witness ==
  /\ SetDacRateReturned /\ rateResult = Ok
  /\ dev.min_rate < dev.max_rate /\ rateReq > dev.max_rate
  /\ Len(ctlLog) = 3 /\ RequestValue(ctlLog[3].req) = dev.max_rate

\* The exchange read a response of n bytes.
ResponseRead == lastExchange.didRead /\ ~lastExchange.r.err

\* C9: a control exchange whose response (a packet of 64 bytes) has a nonzero
\* status byte at offset 1 yields UnexpectedContent(that byte, 0), whatever
\* the other bytes are; and no exchange that read a nonzero byte at offset 1,
\* complete or not, yields a value.
C9_NonzeroStatusIsUnexpectedContent ==
  (ResponseRead /\ lastExchange.recv[2] # 0) =>
    /\ lastExchange.result # Ok
    /\ lastExchange.r.n = RECV_BUF_LEN =>
         lastExchange.result = UnexpectedContent(lastExchange.recv[2], 0)

C9_Witness ==
  /\ ResponseRead /\ lastExchange.r.n = RECV_BUF_LEN
  /\ lastExchange.recv[2] = 255 /\ lastExchange.recv[1] = 0
  /\ lastExchange.recv[RECV_BUF_LEN] # 0
  /\ lastExchange.result = UnexpectedContent(255, 0)

\* The operation that made the last exchange returned that exchange's error.
OperationFailedWith(result) ==
  IF rateCalls = 0
  THEN cpc = "failed" /\ openResult = result
  ELSE cpc = "ready" /\ rateResult = result

\* C10: a control exchange whose read returns fewer than 64 bytes yields
\* IncompleteResponse(read, 64), and the get or set built on it returns that
\* error instead of a value.
C10_ShortReadIsIncompleteResponse ==
  (ResponseRead /\ lastExchange.r.n < RECV_BUF_LEN) =>
    /\ lastExchange.result = IncompleteResponse(lastExchange.r.n, RECV_BUF_LEN)
    /\ OperationFailedWith(lastExchange.result)

C10_Witness ==
  /\ ResponseRead /\ lastExchange.r.n = RECV_BUF_LEN - 1
  /\ lastExchange.recv[2] = 0
  /\ lastExchange.req = <<Get_MinDacRate>>
  /\ rateResult = IncompleteResponse(RECV_BUF_LEN - 1, RECV_BUF_LEN)

MissingEndpoint == \E ep \in Endpoints : ~dev[ep]

ControlCommandWritten ==
  \/ lastExchange # NoExchange
  \/ \E k \in 1..Len(ctlLog) : ctlLog[k].kind = "exchange"

\* C16: on a device that lacks one of the three endpoints open never gets
\* past resolving the endpoints: it returns no session, writes no control
\* command (no diagnostics get, no ClearRingBuffer, no EnableOutput), and the
\* failed lookup returns the endpoint-not-found error.
C16_OpenFailsWithoutEndpoint ==
  MissingEndpoint =>
    /\ cpc \notin {"diagnostics", "clear_ringbuffer", "enable_output", "output_enabled", "ready"}
    /\ openResult # Ok
    /\ rateCalls = 0
    /\ ~ControlCommandWritten
    /\ \A k \in 1..Len(ctlLog) :
         (ctlLog[k].kind = "resolve" /\ ~ctlLog[k].ok) =>
           /\ k = Len(ctlLog)
           /\ ~dev[ctlLog[k].what]
           /\ cpc = "failed"
           /\ openResult = EndpointNotFound

\* only the data-write endpoint is absent: both control endpoints were
\* resolved and configured before open failed
C16_Witness ==
  /\ dev.control_read /\ dev.control_write /\ ~dev.data_write
  /\ cpc = "failed" /\ openResult = EndpointNotFound
  /\ Len(ctlLog) = 5
  /\ Last(ctlLog) = Resolved("data_write", FALSE)

\* C17: in every control exchange a write that moved a number of bytes other
\* than the request's length returns IncompleteWrite(written, expected) and
\* reads nothing; the response is read only after a complete write; and the
\* checks come in the order write length, response length, status byte: a
\* short response is IncompleteResponse even when its status byte is nonzero,
\* and UnexpectedContent is returned only for a response of full length.
C17_WriteCheckedBeforeRead ==
  LET x == lastExchange IN
  x # NoExchange =>
    /\ (~x.w.err /\ x.w.n # Len(x.req)) =>
         x.result = IncompleteWrite(x.w.n, Len(x.req)) /\ ~x.didRead
    /\ x.w.err => ~x.didRead
    /\ x.didRead => (~x.w.err /\ x.w.n = Len(x.req))
    /\ ~x.didRead => (x.r = NoTransfer /\ x.recv = <<>>)
    /\ x.result.tag \in {"IncompleteResponse", "UnexpectedContent"} => x.didRead
    /\ (x.didRead /\ ~x.r.err /\ x.r.n # RECV_BUF_LEN) =>
         x.result = IncompleteResponse(x.r.n, RECV_BUF_LEN)
    /\ x.result.tag = "UnexpectedContent" =>
         (x.r.n = RECV_BUF_LEN /\ x.result = UnexpectedContent(x.recv[2], 0))
    /\ x.result = Ok =>
         (x.didRead /\ ~x.r.err /\ x.r.n = RECV_BUF_LEN /\ x.recv[2] = 0)

\* the five-byte DacRate request went out one byte short
C17_Witness ==
  /\ Len(lastExchange.req) = 5
  /\ lastExchange.w = [err |-> FALSE, n |-> 4]
  /\ ~lastExchange.didRead
  /\ rateResult = IncompleteWrite(4, 5)

DacRateWrites == { k \in 1..Len(ctlLog) : ExchangeOf(ctlLog[k], Set_DacRate) }

RateQueryFailed ==
  \E k \in 1..Len(ctlLog) :
    /\ ExchangeOf(ctlLog[k], Get_MinDacRate) \/ ExchangeOf(ctlLog[k], Get_MaxDacRate)
    /\ ~ctlLog[k].ok

\* C19: set_dac_rate never aborts, whatever limits the device reports: it
\* returns an error, or it has written exactly one DacRate command; and when
\* the MinDacRate or the MaxDacRate exchange failed it writes no DacRate
\* command.  (Stated as claimed; the code breaks it.)
C19_SetDacRateNeverAborts ==
  rateCalls > 0 =>
    /\ cpc # "panicked"
    /\ rateResult # Panicked
    /\ Cardinality(DacRateWrites) <= 1
    /\ (SetDacRateReturned /\ rateResult = Ok) => Cardinality(DacRateWrites) = 1
    /\ RateQueryFailed => DacRateWrites = {}

(* ================ claims on the session operations ==================== *)
\* The four bytes of v, least significant first.
LittleEndian(v) ==
  << v % 256, (v \div 256) % 256, (v \div 65536) % 256, (v \div 16777216) % 256 >>

\* What section 4.2 asks set_dac_rate to write for the device's limits.
ClampedRate == 
  IF rateReq < dev.min_rate THEN dev.min_rate
  ELSE IF rateReq > dev.max_rate THEN dev.max_rate
  ELSE rateReq

OnlyRequest(req) == Len(ctlLog) = 1 /\ ctlLog[1].kind = "exchange" /\ ctlLog[1].req = req

\* C11: every derived control operation writes exactly [command byte,
\* payload...]: clear_ringbuffer [0x8d, 0], enable_output [0x80, 1],
\* disable_output [0x80, 0], the gets the single byte of their command
\* (MinDacRate 0x87, MaxDacRate 0x84), and set_dac_rate 0x87, 0x84 and then
\* [0x82] followed by the four little-endian bytes of the clamped rate.
C11_RequestBytes ==
  /\ op = "clear_ringbuffer" => OnlyRequest(<<141, 0>>)
  /\ op = "enable_output" => OnlyRequest(<<128, 1>>)
  /\ op = "disable_output" => OnlyRequest(<<128, 0>>)
  /\ op = "min_dac_rate" => OnlyRequest(<<135>>)
  /\ op = "max_dac_rate" => OnlyRequest(<<132>>)
  /\ op = "set_dac_rate" =>
       /\ Len(ctlLog) <= 3
       /\ \A k \in 1..Len(ctlLog) :
            /\ ctlLog[k].kind = "exchange"
            /\ k = 1 => ctlLog[k].req = <<135>>
            /\ k = 2 => ctlLog[k].req = <<132>>
            /\ k = 3 => ctlLog[k].req = <<130>> \o LittleEndian(ClampedRate)

C11_Witness ==
  /\ op = "set_dac_rate" /\ cpc = "ready" /\ rateResult = Ok
  /\ Len(ctlLog) = 3
  /\ rateReq = 20000 /\ dev.min_rate = 500 /\ dev.max_rate = 2147483647
  /\ ctlLog[3].req = <<130, 32, 78, 0, 0>>

\* Bytes [2, 6) of a response, least significant first.
ResponseValue(recv) ==
  recv[3] + 256 * recv[4] + 65536 * recv[5] + 16777216 * recv[6]

\* C18: a 32-bit get whose exchange passed the three validations returns
\* byte[2] + 256 * byte[3] + 65536 * byte[4] + 16777216 * byte[5] of the
\* response, an 8-bit get returns byte[2]; the value is the one the device
\* put in those bytes whatever it put in byte 0 and in bytes 6..63 (byte 1 is
\* zero in every validated response).
C18_GetDecodesValueBytes ==
  /\ (opResult = Ok /\ op \in {"min_dac_rate", "max_dac_rate"}) =>
       /\ lastExchange.recv[2] = 0
       /\ opValue = ResponseValue(lastExchange.recv)
       /\ opValue = (IF op = "min_dac_rate" THEN dev.min_rate ELSE dev.max_rate)
  /\ (opResult = Ok /\ op = "read_u8") =>
       /\ lastExchange.recv[2] = 0
       /\ opValue = lastExchange.recv[3]
       /\ opValue \in OtherValues
  /\ (op = "set_dac_rate" /\ cpc \in {"rate_max", "rate_write", "panicked"}) =>
       rateMin = dev.min_rate
  /\ (op = "set_dac_rate" /\ cpc \in {"rate_write", "panicked"}) =>
       rateMax = dev.max_rate

\* max_dac_rate decoded 0x7fffffff from a response whose byte 0 and trailing
\* bytes are nonzero
C18_Witness ==
  /\ op = "max_dac_rate" /\ opResult = Ok
  /\ opValue = 2147483647
  /\ lastExchange.recv[1] = Get_MaxDacRate
  /\ lastExchange.recv[RECV_BUF_LEN] = 170

(* ====================== claims on the codec =========================== *)
Encoded == qpc = "done"

\* The numerator of clamp(f, -1, 1) for a number f = n / Den.
UnitNumerator(f) == IF f.n < -Den THEN -Den ELSE IF f.n > Den THEN Den ELSE f.n

\* round(4095 * (clamp(f, -1, 1) + 1) / 2): the nearest integer, halves up.
RoundedCoordinate(f) == (4095 * (UnitNumerator(f) + Den) + Den) \div (2 * Den)

\* C12: the quantized coordinate of every number f is
\* round(4095 * (clamp(f, -1, 1) + 1) / 2), rounding to the nearest integer
\* and not truncating: f = 0 gives the nearest integer of 2047.5.  (Stated as
\* claimed; the code breaks it.)
C12_QuantizeRoundsToNearest ==
  Encoded =>
    /\ codecIn.x.kind = "num" => codecOut.x = RoundedCoordinate(codecIn.x)
    /\ codecIn.y.kind = "num" => codecOut.y = RoundedCoordinate(codecIn.y)

AtLeastOne(f) == f = PlusInf \/ (f.kind = "num" /\ f.n >= Den)
AtMostMinusOne(f) == f = MinusInf \/ (f.kind = "num" /\ f.n <= -Den)

InRange(f, q) ==
  /\ q \in 0..4095
  /\ AtLeastOne(f) => q = 4095
  /\ AtMostMinusOne(f) => q = 0

\* C13: for every input coordinate f, inside or outside [-1, 1], the
\* quantized coordinate is in [0, 4095]; every f >= 1 gives 4095 and every
\* f <= -1 gives 0; so every sample LaserdockSample::new builds has x and y in
\* [0, 4095].
C13_QuantizedInRange ==
  Encoded => InRange(codecIn.x, codecOut.x) /\ InRange(codecIn.y, codecOut.y)

C13_Witness ==
  /\ Encoded
  /\ codecIn.x = Num(2 * Den) /\ codecOut.x = 4095
  /\ codecIn.y = Num(-5 * Den) /\ codecOut.y = 0

(* ===================== claims on the streaming loop =================== *)
\* ceil(n / d) for n >= 0, d > 0
CeilDiv(n, d) == (n + d - 1) \div d

RECURSIVE Concat(_)
Concat(batches) ==
  IF batches = <<>> THEN <<>> ELSE Head(batches).points \o Concat(Tail(batches))

\* the write k of the current pass moved every byte it was given
Complete(k) == ~sentLog[k].t.err /\ sentLog[k].t.n = Len(sentLog[k].buf)

\* C14: every call of send_samples makes one bulk write of the whole byte
\* image of its chunk (as many writes in the log as chunks handed out, none
\* after a failed one, so nothing is retried and no remainder is written); a
\* transfer that moved fewer bytes than submitted returns
\* IncompleteWrite(written, expected), and the call returns Ok exactly when
\* the transport moved all the bytes.
C14_SendIsOneWholeWrite ==
  /\ Len(sentLog) = CeilDiv(offset, SAMPLES_PER_BATCH) + (IF spc = "failed" THEN 1 ELSE 0)
  /\ \A k \in 1..Len(sentLog) :
       LET e == sentLog[k] IN
       /\ e.buf = CastSlice(e.points)
       /\ Len(e.buf) = SAMPLE_SIZE * Len(e.points)
       /\ (e.result = Ok) <=> Complete(k)
       /\ (~e.t.err /\ e.t.n < Len(e.buf)) => e.result = IncompleteWrite(e.t.n, Len(e.buf))
       /\ e.t.err => e.result = UsbError
       /\ k < Len(sentLog) => e.result = Ok
  /\ spc = "failed" <=> (sentLog # <<>> /\ Last(sentLog).result # Ok)
  /\ sentLog # <<>> => lastSend = [buf |-> Last(sentLog).buf, t |-> Last(sentLog).t,
                                   result |-> Last(sentLog).result]

\* a second batch was written one byte short and the stream stopped there
C14_Witness ==
  /\ spc = "failed"
  /\ Len(sentLog) = 2
  /\ sentLog[2].t = [err |-> FALSE, n |-> Len(sentLog[2].buf) - 1]
  /\ lastSend.result = IncompleteWrite(BYTES_PER_BATCH - 1, BYTES_PER_BATCH)

\* C15: the batches handed to send_samples are consecutive pieces of the
\* sequence (their concatenation is the part handed out so far), each of
\* SAMPLES_PER_BATCH = 8 samples except the one that ends the sequence; a
\* complete pass over L >= 1 samples makes ceil(L / 8) batches, the last of
\* L mod 8 samples (8 when 8 divides L), and their concatenation is the
\* sequence itself.
C15_ChunksCoverSequence ==
  LET L == Len(output_points)
      n == Len(sentLog)
      handed == Concat(sentLog)
  IN /\ SAMPLES_PER_BATCH = 8
     /\ Len(handed) <= L
     /\ handed = SubSeq(output_points, 1, Len(handed))
     /\ \A k \in 1..n :
          \/ Len(sentLog[k].points) = SAMPLES_PER_BATCH
          \/ /\ k = n
             /\ Len(handed) = L
             /\ Len(sentLog[k].points) = L % SAMPLES_PER_BATCH
     /\ (spc = "stream" /\ offset = L /\ L >= 1) =>
          /\ n = CeilDiv(L, SAMPLES_PER_BATCH)
          /\ Len(sentLog[n].points) =
               (IF L % SAMPLES_PER_BATCH = 0 THEN SAMPLES_PER_BATCH ELSE L % SAMPLES_PER_BATCH)
          /\ handed = output_points

\* a pass over two full batches and a remainder of one sample is complete
C15_Witness ==
  /\ spc = "stream"
  /\ Len(output_points) = 2 * SAMPLES_PER_BATCH + 1
  /\ offset = Len(output_points)
  /\ Len(sentLog) = 3
  /\ Len(sentLog[3].points) = 1

====
